---- MODULE Spec2Model ----
(***************************************************************************)
(* VortexL2 port-forward management.                                       *)
(*                                                                         *)
(* State: the operating system's process table restricted to socat         *)
(* forwarders (command lines kept as text), the persisted forward mode,    *)
(* the two systemd services the mode menu drives, and the stealth HAProxy  *)
(* artifacts.  Operations: SocatManager (socat_manager.py) and the menu    *)
(* handlers of main.py.  Text (command lines, regular expressions) is      *)
(* kept as sequences of tokens: literal fragments of the format strings    *)
(* are one token each, every character of an interpolated value (port      *)
(* digits, host characters) is its own token.                              *)
(*                                                                         *)
(* External commands are the non-deterministic boundary.  The outcomes the *)
(* code itself branches on are modelled as choices: a launch that fails or *)
(* does not leave a process behind, a pkill that leaves processes alive at *)
(* the 200 ms check, a stop that raises, a haproxy -c that rejects, a      *)
(* haproxy that does not come up.  The observational commands (which,      *)
(* pgrep, ps) report the process table as it is, and a systemctl command,  *)
(* whose return code the code never reads, moves its unit as asked.        *)
(*                                                                         *)
(* Spec and SpecStealth take each handler as one step.  SpecExec takes the *)
(* same calls command by command: there a command may also fail to spawn   *)
(* or not come back, in which case only a timeout ends the wait.           *)
(* SpecArtifact follows the stealth files on two hosts whose adds and      *)
(* removes come in different orders.                                       *)
(* SpecTunnel is the tunnel side of main.py (cmd_apply, creation and       *)
(* deletion of a tunnel), SpecMenu the choices of the forwards menu over   *)
(* the declared rules, and SpecRace two programs that are inside           *)
(* start_forward at the same time.                                         *)
(***************************************************************************)
EXTENDS Integers, Sequences, FiniteSets, TLC

\* ------------------------------------------------------------------ bounds
NumPorts == 2

\* local ports: 8 and 80 share a digit prefix
PortPool == <<8, 80, 443, 8080>>
Ports == {PortPool[i] : i \in 1..NumPorts}

\* remote_ip as the caller passes it: a dotted address and a host name
Hosts == { <<"1", "0", ".", "0", ".", "0", ".", "2">>,
           <<"d", "b", ".", "l", "a", "n">> }
RemotePorts == {80}

Modes == {"none", "haproxy", "socat"}

\* tunnel names the administrator may choose
NumTunnels == 2
TunnelNames == 1..NumTunnels

\* ------------------------------------------------------------------- text
Digit == {"0", "1", "2", "3", "4", "5", "6", "7", "8", "9"}

DigitChar(d) ==
    CASE d = 0 -> "0" [] d = 1 -> "1" [] d = 2 -> "2" [] d = 3 -> "3"
      [] d = 4 -> "4" [] d = 5 -> "5" [] d = 6 -> "6" [] d = 7 -> "7"
      [] d = 8 -> "8" [] d = 9 -> "9"

DigitVal(c) ==
    CASE c = "0" -> 0 [] c = "1" -> 1 [] c = "2" -> 2 [] c = "3" -> 3
      [] c = "4" -> 4 [] c = "5" -> 5 [] c = "6" -> 6 [] c = "7" -> 7
      [] c = "8" -> 8 [] c = "9" -> 9

\* f"{n}" for a non-negative integer
RECURSIVE Dec(_)
Dec(n) == IF n < 10 THEN <<DigitChar(n)>> ELSE Dec(n \div 10) \o <<DigitChar(n % 10)>>

\* int(s) for a non-empty digit string
RECURSIVE ToInt(_)
ToInt(s) ==
    IF Len(s) = 0 THEN 0
    ELSE 10 * ToInt(SubSeq(s, 1, Len(s) - 1)) + DigitVal(s[Len(s)])

\* does the token sequence lit occur in text at position i
At(text, i, lit) ==
    /\ i >= 1
    /\ i + Len(lit) - 1 <= Len(text)
    /\ SubSeq(text, i, i + Len(lit) - 1) = lit

\* length of the longest run of tokens of class cls starting at position i
RECURSIVE RunLen(_, _, _)
RunLen(text, i, cls) ==
    IF i <= Len(text) /\ text[i] \in cls THEN 1 + RunLen(text, i + 1, cls) ELSE 0

Min(S) == CHOOSE x \in S : \A y \in S : x <= y

\* ------------------------------------------------------------------ state
VARIABLES
    procs,           \* process table: socat forwarders, [pid, cmd]
    installed,       \* socat binary present (outcome of `which socat`)
    mode,            \* persisted forward mode (get/set_forward_mode)
    haproxyService,  \* systemd unit haproxy is running
    forwardDaemon,   \* systemd unit vortexl2-forward-daemon is running
    lastOp,          \* the last operation: inputs, (success, message), commands issued
    prevStart,       \* port started successfully by the operation before lastOp, else 0
    stealthCfg,      \* /etc/vortexl2/haproxy/stealth.cfg  [exists, text]
    combinedCfg,     \* /etc/vortexl2/haproxy/combined.cfg [exists, text]
    stealthProxy,    \* the haproxy started on combined.cfg [running, cfg]
    accepted,        \* `haproxy -c` has accepted combined.cfg as it now stands
    twinCfg,         \* stealth.cfg and combined.cfg on two hosts, each with its own
                     \* history of adds and removes
    exec,            \* the call in progress, command by command: operation, arguments,
                     \* position, the command that has not returned, result so far
    tunnels,         \* the saved tunnel configurations, in the order
                     \* ConfigManager.get_all_tunnels() returns them: [name, configured]
    declared,        \* config.forwarded_ports of the tunnel the forwards menu manages
    callers          \* two programs inside start_forward at once (the menu and the
                     \* forward daemon): each one's call, as in exec

fwdVars == <<procs, installed, mode, haproxyService, forwardDaemon>>
stealthVars == <<stealthCfg, combinedCfg, stealthProxy, accepted, twinCfg>>
vars == <<procs, installed, mode, haproxyService, forwardDaemon, lastOp, prevStart,
          stealthCfg, combinedCfg, stealthProxy, accepted, twinCfg, exec, tunnels, declared, callers>>

\* host, rport: the forward target of a start; count: the number a message reports;
\* rc, skipped, outcomes: return code, skipped tunnels and full_setup results of cmd_apply
OpRec(op, port, ok, msg, cmds, from, stopped, confirm) ==
    [op |-> op, port |-> port, ok |-> ok, msg |-> msg, cmds |-> cmds,
     from |-> from, stopped |-> stopped, confirm |-> confirm,
     host |-> <<>>, rport |-> 0, count |-> 0, rc |-> 0, skipped |-> <<>>, outcomes |-> <<>>]

\* record an operation; remember whether the one before it was a successful start
Log(rec) ==
    /\ lastOp' = rec
    /\ prevStart' = IF lastOp.op = "start_forward" /\ lastOp.ok THEN lastOp.port ELSE 0

\* ------------------------------------------------- socat_manager.py: text
\* the process command line left behind by
\*   nohup socat TCP-LISTEN:{local_port},fork,reuseaddr TCP:{remote_ip}:{remote_port} ... &
socat_cmdline(local_port, remote_ip, remote_port) ==
    <<"socat", " ", "TCP-LISTEN:">> \o Dec(local_port)
        \o <<",fork,reuseaddr ", "TCP:">>
        \o remote_ip \o <<":">> \o Dec(remote_port)

\* regex  socat.*TCP-LISTEN:{local_port}  (no trailing character class)
ListenPatternUnbounded(cmd, local_port) ==
    \E j \in 2..Len(cmd) :
        /\ cmd[j] = "TCP-LISTEN:"
        /\ \E i \in 1..(j - 1) : cmd[i] = "socat"
        /\ At(cmd, j + 1, Dec(local_port))

\* regex  socat.*TCP-LISTEN:{local_port}[^0-9]  of pgrep -f / pkill -f
ListenPattern(cmd, local_port) ==
    \E j \in 2..Len(cmd) :
        /\ cmd[j] = "TCP-LISTEN:"
        /\ \E i \in 1..(j - 1) : cmd[i] = "socat"
        /\ At(cmd, j + 1, Dec(local_port))
        /\ j + Len(Dec(local_port)) + 1 <= Len(cmd)
        /\ cmd[j + Len(Dec(local_port)) + 1] \notin Digit

\* regex  socat.*TCP-LISTEN  of pkill -f in stop_all_forwards
AnyListenPattern(cmd) ==
    \E j \in 2..Len(cmd) : cmd[j] = "TCP-LISTEN:" /\ \E i \in 1..(j - 1) : cmd[i] = "socat"

\* grep '[s]ocat TCP-LISTEN' over ps aux
GrepSocatListen(cmd) ==
    \E i \in 1..Len(cmd) : cmd[i] = "socat" /\ At(cmd, i, <<"socat", " ", "TCP-LISTEN:">>)

\* re.search(r'TCP-LISTEN:(\d+)', cmd_part): position of the first match, 0 if none
ListenMatch(cmd) ==
    LET hits == {j \in 1..Len(cmd) : cmd[j] = "TCP-LISTEN:" /\ RunLen(cmd, j + 1, Digit) >= 1}
    IN  IF hits = {} THEN 0 ELSE Min(hits)

\* re.search(r'TCP:([\d.]+):(\d+)', cmd_part): position of the first match, 0 if none
RemoteMatch(cmd) ==
    LET hits == {j \in 1..Len(cmd) :
                    /\ cmd[j] = "TCP:"
                    /\ RunLen(cmd, j + 1, Digit \cup {"."}) >= 1
                    /\ At(cmd, j + 1 + RunLen(cmd, j + 1, Digit \cup {"."}), <<":">>)
                    /\ RunLen(cmd, j + 2 + RunLen(cmd, j + 1, Digit \cup {"."}), Digit) >= 1}
    IN  IF hits = {} THEN 0 ELSE Min(hits)

\* int(match.group(k)) for a (\d+) group that starts at position i
int_group(cmd, i) == ToInt(SubSeq(cmd, i, i + RunLen(cmd, i, Digit) - 1))

\* one parsed line of list_active_forwards
ForwardEntry(p) ==
    LET cmd == p.cmd
        l   == ListenMatch(cmd)
        r   == RemoteMatch(cmd)
        n   == RunLen(cmd, r + 1, Digit \cup {"."})
    IN  [pid         |-> p.pid,
         local_port  |-> int_group(cmd, l + 1),
         remote_ip   |-> SubSeq(cmd, r + 1, r + n),
         remote_port |-> int_group(cmd, r + n + 2),
         status      |-> "running"]

\* --------------------------------------------- socat_manager.py: queries
is_port_forwarded(table, local_port) ==
    \E p \in table : ListenPattern(p.cmd, local_port)

\* a ps aux row of a socat command line always has at least 11 columns
list_active_forwards(table) ==
    {ForwardEntry(p) : p \in {q \in table :
        GrepSocatListen(q.cmd) /\ ListenMatch(q.cmd) # 0 /\ RemoteMatch(q.cmd) # 0}}

\* the processes whose command line names local_port as the listen port
ListeningOn(table, local_port) ==
    {p \in table : ListenMatch(p.cmd) # 0 /\ int_group(p.cmd, ListenMatch(p.cmd) + 1) = local_port}

FreshPid(table) == Min((1..(Cardinality(table) + 1)) \ {p.pid : p \in table})

\* -------------------------------------------- socat_manager.py: mutations
Result(table, ok, msg, cmds) == [table |-> table, ok |-> ok, msg |-> msg, cmds |-> cmds]

\* "Verify it started" without looking at the process table
start_verify_trusting(table, local_port) ==
    [ok |-> TRUE, msg |-> "Started"]

\* start_forward, after the 200 ms sleep: the outcome is what pgrep observes
start_verify(table, local_port) ==
    IF is_port_forwarded(table, local_port)
    THEN [ok |-> TRUE, msg |-> "Started"]
    ELSE [ok |-> FALSE, msg |-> "StartVerificationFailed"]

\* "Check if port is already in use" that never refuses
start_refused_never(table, local_port) == FALSE

\* start_forward, second check: refuse a port that is already forwarded
start_refused(table, local_port) == is_port_forwarded(table, local_port)

\* launch_ok: run_command(cmd) reported success; spawned: the socat process
\* is in the process table when the sleep ends
start_forward(table, inst, local_port, remote_ip, remote_port, launch_ok, spawned) ==
    IF ~inst
    THEN Result(table, FALSE, "ToolNotInstalled", <<"which">>)
    ELSE IF start_refused(table, local_port)
    THEN Result(table, FALSE, "AlreadyForwarded", <<"which", "pgrep">>)
    ELSE IF ~launch_ok
    THEN Result(table, FALSE, "LaunchFailed", <<"which", "pgrep", "launch">>)
    ELSE LET after == IF spawned
                      THEN table \cup {[pid |-> FreshPid(table),
                                        cmd |-> socat_cmdline(local_port, remote_ip, remote_port)]}
                      ELSE table
             v     == start_verify(after, local_port)
         IN  Result(after, v.ok, v.msg, <<"which", "pgrep", "launch", "pgrep">>)

\* the processes pkill -f 'socat.*TCP-LISTEN:{local_port}[^0-9]' signals
stop_targets(table, local_port) == {p \in table : ListenPattern(p.cmd, local_port)}

\* stop_forward that signals without asking whether the port is forwarded
stop_noop_never(table, local_port) == FALSE

\* stop_forward, first check: nothing to do for a port that is not forwarded
stop_noop(table, local_port) == ~is_port_forwarded(table, local_port)

\* survivors: the signalled processes still alive when the sleep ends
stop_forward(table, local_port, survivors) ==
    IF stop_noop(table, local_port)
    THEN Result(table, TRUE, "NotForwarded", <<"pgrep">>)
    ELSE LET after == (table \ stop_targets(table, local_port)) \cup survivors
         IN  IF ~is_port_forwarded(after, local_port)
             THEN Result(after, TRUE, "Stopped", <<"pgrep", "pkill", "pgrep">>)
             ELSE Result(after, FALSE, "StopVerificationFailed", <<"pgrep", "pkill", "pgrep">>)

\* the processes pkill -f 'socat.*TCP-LISTEN' signals
stop_all_targets(table) == {p \in table : AnyListenPattern(p.cmd)}

\* remaining: len(forwards), the number the failure message reports
stop_all_forwards(table, survivors) ==
    LET after == (table \ stop_all_targets(table)) \cup survivors
        n     == Cardinality(list_active_forwards(after))
    IN  [table |-> after, ok |-> (n = 0),
         msg |-> IF n = 0 THEN "AllStopped" ELSE "SomeRemaining",
         cmds |-> <<"pkill", "ps">>, remaining |-> n]

stop_all_socat(table, survivors) == stop_all_forwards(table, survivors)

\* ------------------------------------------------------ main.py: services
\* subprocess.run("systemctl ...", shell=True, capture_output=True): the
\* return code is never read; the unit is taken to follow the command
systemctl_stop(running) == FALSE
systemctl_start(running) == TRUE
systemctl_restart(running) == TRUE

\* vortexl2.forward.set_forward_mode: persist the mode
set_forward_mode(new_mode) == new_mode

restart_forward_daemon(m, hs, fd) ==
    [haproxyService |-> IF m = "haproxy" THEN systemctl_start(hs) ELSE hs,
     forwardDaemon  |-> systemctl_restart(fd),
     cmds           |-> IF m = "haproxy"
                        THEN <<"systemctl start haproxy", "systemctl restart vortexl2-forward-daemon">>
                        ELSE <<"systemctl restart vortexl2-forward-daemon">>]

\* a mode switch that starts the new backend without asking
start_after_switch_always(new_mode, confirm) == new_mode # "none"

\* handle_forwards_menu, choice 6: "If enabling a mode, offer to start"
start_after_switch(new_mode, confirm) == new_mode # "none" /\ confirm

\* --------------------------------- main.py: handle_stealth_port_forwards
NoFile == [exists |-> FALSE, text |-> <<>>]
File(text) == [exists |-> TRUE, text |-> text]
ProxyDown == [running |-> FALSE, cfg |-> <<>>]
ProxyOn(text) == [running |-> TRUE, cfg |-> text]

\* remote tunnel address for a role other than "iran"
tunnel_remote_ip == <<"10.100.0.2">>

Contains(text, lit) == \E i \in 1..Len(text) : At(text, i, lit)

\* first position >= from where lit occurs in text, 0 if none
FindFrom(text, from, lit) ==
    LET hits == {i \in from..Len(text) : At(text, i, lit)}
    IN  IF hits = {} THEN 0 ELSE Min(hits)

\* an entry that does not begin with an empty line
haproxy_entry_unseparated(port, remote_ip) ==
    <<"# Stealth forward port ">> \o Dec(port)
      \o <<"\n", "frontend stealth_">> \o Dec(port)
      \o <<"\n", "    bind *:">> \o Dec(port)
      \o <<"\n", "    mode tcp", "\n", "    default_", "backend stealth_backend_">> \o Dec(port)
      \o <<"\n", "\n", "backend stealth_backend_">> \o Dec(port)
      \o <<"\n", "    mode tcp", "\n", "    server tunnel ">> \o remote_ip \o <<":">> \o Dec(port)
      \o <<" ", "check", "\n">>

\* the f-string haproxy_entry
haproxy_entry(port, remote_ip) ==
    <<"\n", "# Stealth forward port ">> \o Dec(port)
      \o <<"\n", "frontend stealth_">> \o Dec(port)
      \o <<"\n", "    bind *:">> \o Dec(port)
      \o <<"\n", "    mode tcp", "\n", "    default_", "backend stealth_backend_">> \o Dec(port)
      \o <<"\n", "\n", "backend stealth_backend_">> \o Dec(port)
      \o <<"\n", "    mode tcp", "\n", "    server tunnel ">> \o remote_ip \o <<":">> \o Dec(port)
      \o <<" ", "check", "\n">>

stealth_header ==
    <<"# VortexL2 Stealth Port Forwards", "\n", "# Generated by VortexL2", "\n">>

base_haproxy == <<"global ... defaults ... timeout server 50000\n">>

\* f"frontend stealth_{port}" in existing
already_configured(existing, port) ==
    Contains(existing, <<"frontend stealth_">> \o Dec(port))

\* re.finditer(r'frontend stealth_(\d+)', content): the captured digit strings
stealth_forwards(file) ==
    IF ~file.exists THEN {}
    ELSE {SubSeq(file.text, i + 1, i + RunLen(file.text, i + 1, Digit)) :
            i \in {j \in 1..Len(file.text) :
                     file.text[j] = "frontend stealth_" /\ RunLen(file.text, j + 1, Digit) >= 1}}

\* re.sub(rf'\n# Stealth forward port {port}\nfrontend stealth_{port}.*?
\*         backend stealth_backend_{port}.*?check\n', '', content, flags=re.DOTALL)
\* port is the digit string the user typed
RECURSIVE remove_stanza(_, _)
remove_stanza(content, port) ==
    LET head  == <<"\n", "# Stealth forward port ">> \o port \o <<"\n", "frontend stealth_">> \o port
        mid   == <<"backend stealth_backend_">> \o port
        tail  == <<"check", "\n">>
        whole(i) == LET j == FindFrom(content, i + Len(head), mid)
                        k == IF j = 0 THEN 0 ELSE FindFrom(content, j + Len(mid), tail)
                    IN  IF k = 0 THEN 0 ELSE k + Len(tail) - 1
        starts == {i \in 1..Len(content) : At(content, i, head) /\ whole(i) # 0}
    IN  IF starts = {} THEN content
        ELSE LET i == Min(starts)
             IN  SubSeq(content, 1, i - 1)
                   \o remove_stanza(SubSeq(content, whole(i) + 1, Len(content)), port)

\* ------------------------------------------- command by command execution
\* What a command does: it exits with a return code and its output, it is
\* still running when the timeout expires, or it cannot be spawned.
\* stdout is kept as the set of its lines, so "" is {}.
Exit(rc, stdout, stderr) == [kind |-> "exit", rc |-> rc, stdout |-> stdout, stderr |-> stderr]
TimeoutExpired == [kind |-> "timeout", rc |-> 1, stdout |-> {}, stderr |-> ""]
SpawnError == [kind |-> "error", rc |-> 1, stdout |-> {}, stderr |-> "[Errno 12] Cannot allocate memory"]

Triple(succeeded, stdout, stderr) ==
    [raised |-> FALSE, succeeded |-> succeeded, stdout |-> stdout, stderr |-> stderr]

\* a runner that lets subprocess.TimeoutExpired through
run_command_raising(b) ==
    IF b.kind = "exit" THEN Triple(b.rc = 0, b.stdout, b.stderr)
    ELSE IF b.kind = "timeout"
    THEN [raised |-> TRUE, succeeded |-> FALSE, stdout |-> {}, stderr |-> ""]
    ELSE Triple(FALSE, {}, b.stderr)

\* run_command(cmd), by the behaviour b of the command
run_command(b) ==
    IF b.kind = "exit" THEN Triple(b.rc = 0, b.stdout, b.stderr)
    ELSE IF b.kind = "timeout" THEN Triple(FALSE, {}, "Command timed out")
    ELSE Triple(FALSE, {}, b.stderr)

\* the steps that go through run_command, and those main.py hands to
\* subprocess.run itself
SocatSteps == {"which", "pgrep", "launch", "verify", "pkill", "pkill_all", "ps"}
SystemctlSteps == {"stop_haproxy", "stop_daemon", "start_haproxy", "restart_daemon",
                   "none_stop_haproxy", "none_stop_daemon"}

\* the call passes timeout= to subprocess.run
has_timeout(step) == step \in SocatSteps

\* is_port_forwarded: success and stdout.strip() != ""
forwarded_reply(res) == res.succeeded /\ res.stdout # {}

\* list_active_forwards: nothing when the command failed or printed nothing
list_reply(res) ==
    IF ~res.succeeded \/ res.stdout = {} THEN {} ELSE list_active_forwards(res.stdout)

\* a summary that calls any answer of the scanner active
get_status_always_active(forwards) ==
    [mode |-> "socat", active |-> TRUE, forward_count |-> Cardinality(forwards)]

\* get_status: the summary built from the list list_active_forwards() returned
get_status(forwards) ==
    [mode |-> "socat", active |-> Cardinality(forwards) > 0,
     forward_count |-> Cardinality(forwards)]

Idle ==
    [op |-> "idle", pc |-> "idle", port |-> 0, host |-> <<>>, rport |-> 0,
     new_mode |-> "none", from |-> "none", waiting |-> FALSE, timedout |-> FALSE,
     issued |-> 0, res |-> Triple(TRUE, {}, ""), last |-> "none",
     ret |-> [ok |-> TRUE, msg |-> ""], stop |-> "n/a", writes |-> 0,
     pkill_ok |-> FALSE, forwards |-> {},
     status |-> [mode |-> "socat", active |-> FALSE, forward_count |-> 0]]

Goto(e, pc) == [e EXCEPT !.pc = pc]
Ret(e, ok, msg) == [e EXCEPT !.pc = "return", !.ret = [ok |-> ok, msg |-> msg]]

\* a start that does not look at what `which socat` answered
tool_found_always(res) == TRUE

\* start_forward: success of run_command("which socat")
tool_found(res) == res.succeeded

\* a stop that goes by the exit status of pkill
stop_verdict_by_exit_status(e, res) == e.pkill_ok

\* stop_forward, after pkill and the wait: stopped iff not is_port_forwarded
stop_verdict(e, res) == ~forwarded_reply(res)

\* where the code goes once the command at e.pc has given res
after_command(e, res) ==
    LET e1 == [e EXCEPT !.waiting = FALSE, !.res = res]
    IN  CASE e.op = "start_forward" /\ e.pc = "which" ->
               IF tool_found(res) THEN Goto(e1, "pgrep") ELSE Ret(e1, FALSE, "ToolNotInstalled")
          [] e.op = "start_forward" /\ e.pc = "pgrep" ->
               IF forwarded_reply(res) THEN Ret(e1, FALSE, "AlreadyForwarded")
               ELSE Goto(e1, "launch")
          [] e.op = "start_forward" /\ e.pc = "launch" ->
               IF res.succeeded THEN Goto(e1, "verify") ELSE Ret(e1, FALSE, "LaunchFailed")
          [] e.op = "start_forward" /\ e.pc = "verify" ->
               IF forwarded_reply(res) THEN Ret(e1, TRUE, "Started")
               ELSE Ret(e1, FALSE, "StartVerificationFailed")
          [] e.op = "stop_forward" /\ e.pc = "pgrep" ->
               IF ~forwarded_reply(res) THEN Ret(e1, TRUE, "NotForwarded")
               ELSE Goto(e1, "pkill")
          [] e.op = "stop_forward" /\ e.pc = "pkill" ->
               Goto([e1 EXCEPT !.pkill_ok = res.succeeded], "verify")
          [] e.op = "stop_forward" /\ e.pc = "verify" ->
               IF stop_verdict(e1, res) THEN Ret(e1, TRUE, "Stopped")
               ELSE Ret(e1, FALSE, "StopVerificationFailed")
          [] e.pc = "pkill_all" -> Goto(e1, "ps")
          [] e.op = "stop_all_forwards" /\ e.pc = "ps" ->
               IF Cardinality(list_reply(res)) = 0 THEN Ret(e1, TRUE, "AllStopped")
               ELSE Ret(e1, FALSE, "SomeRemaining")
          [] e.op = "list_active_forwards" /\ e.pc = "ps" ->
               Ret([e1 EXCEPT !.forwards = list_reply(res)], TRUE, "")
          [] e.op = "get_status" /\ e.pc = "ps" ->
               Ret([e1 EXCEPT !.forwards = list_reply(res),
                              !.status = get_status(list_reply(res))], TRUE, "")
          [] e.op = "change_mode" /\ e.pc = "ps" ->
               Goto([e1 EXCEPT !.stop = IF Cardinality(list_reply(res)) = 0
                                        THEN "ok" ELSE "failed"], "stop_daemon")
          [] e.pc = "stop_haproxy" -> Goto(e1, "stop_daemon")
          [] e.pc = "stop_daemon" -> Goto(e1, "persist")
          [] e.pc = "start_haproxy" -> Goto(e1, "restart_daemon")
          [] e.pc = "restart_daemon" -> Ret(e1, TRUE, "")
          [] e.pc = "none_stop_haproxy" -> Goto(e1, "none_stop_daemon")
          [] e.pc = "none_stop_daemon" -> Ret(e1, TRUE, "")

\* --------------------------------------------------------------- actions
Init ==
    /\ procs = {}
    /\ installed \in BOOLEAN
    /\ mode = "none"
    /\ haproxyService = FALSE
    /\ forwardDaemon = FALSE
    /\ lastOp = OpRec("init", 0, TRUE, "", <<>>, "none", "n/a", FALSE)
    /\ prevStart = 0
    /\ stealthCfg = NoFile
    /\ combinedCfg = NoFile
    /\ stealthProxy = ProxyDown
    /\ accepted = FALSE
    /\ twinCfg = [h \in {1, 2} |-> [stealth |-> NoFile, combined |-> NoFile]]
    /\ exec = Idle
    /\ tunnels = <<>>
    /\ declared = {}
    /\ callers = [c \in {1, 2} |-> Idle]

\* SocatManager.start_forward(local_port, remote_ip, remote_port)
StartForward ==
    \E local_port \in Ports, remote_ip \in Hosts, remote_port \in RemotePorts,
       launch_ok \in BOOLEAN :
    \E spawned \in (IF launch_ok THEN BOOLEAN ELSE {FALSE}) :
    \E r \in {start_forward(procs, installed, local_port, remote_ip, remote_port,
                            launch_ok, spawned)} :
            /\ procs' = r.table
            /\ Log([OpRec("start_forward", local_port, r.ok, r.msg, r.cmds, mode, "n/a", FALSE)
                       EXCEPT !.host = remote_ip, !.rport = remote_port])
            /\ UNCHANGED <<installed, mode, haproxyService, forwardDaemon, stealthVars, exec, tunnels, declared, callers>>

\* SocatManager.stop_forward(local_port)
StopForward ==
    \E local_port \in Ports :
    \E survivors \in SUBSET stop_targets(procs, local_port) :
    \E r \in {stop_forward(procs, local_port, survivors)} :
            /\ procs' = r.table
            /\ Log(OpRec("stop_forward", local_port, r.ok, r.msg, r.cmds, mode, "n/a", FALSE))
            /\ UNCHANGED <<installed, mode, haproxyService, forwardDaemon, stealthVars, exec, tunnels, declared, callers>>

\* SocatManager.stop_all_forwards()
StopAllForwards ==
    \E survivors \in SUBSET stop_all_targets(procs) :
    \E r \in {stop_all_forwards(procs, survivors)} :
            /\ procs' = r.table
            /\ Log([OpRec("stop_all_forwards", 0, r.ok, r.msg, r.cmds, mode, "n/a", FALSE)
                       EXCEPT !.count = r.remaining])
            /\ UNCHANGED <<installed, mode, haproxyService, forwardDaemon, stealthVars, exec, tunnels, declared, callers>>

\* handle_forwards_menu, choice 6: change the forward mode
\* raises: the stop of the current backend raised an exception
ChangeForwardMode ==
    \E new_mode \in Modes \ {mode} :
    \E confirm \in (IF new_mode = "none" THEN {FALSE} ELSE BOOLEAN),
       raises \in (IF mode = "none" THEN {FALSE} ELSE BOOLEAN) :
    \E survivors \in (IF mode = "socat" /\ ~raises
                      THEN SUBSET stop_all_targets(procs) ELSE {{}}) :
    \* stop and clean up the current mode
    \E stop \in {IF mode = "socat" /\ ~raises
                 THEN stop_all_socat(procs, survivors)
                 ELSE Result(procs, TRUE, "", <<>>)} :
        LET current_mode == mode
            stopped == IF current_mode = "none" THEN "n/a"
                       ELSE IF raises THEN "raised"
                       ELSE IF stop.ok THEN "ok" ELSE "failed"
            hs1 == IF current_mode = "haproxy" THEN systemctl_stop(haproxyService)
                   ELSE haproxyService
            fd1 == IF current_mode # "none" THEN systemctl_stop(forwardDaemon)
                   ELSE forwardDaemon
            cmds1 == stop.cmds
                     \o (IF current_mode = "haproxy" THEN <<"systemctl stop haproxy">> ELSE <<>>)
                     \o (IF current_mode # "none"
                         THEN <<"systemctl stop vortexl2-forward-daemon">> ELSE <<>>)
            \* set the new mode
            m2 == set_forward_mode(new_mode)
            \* offer to start, or make sure everything is stopped
            rs == restart_forward_daemon(m2, hs1, fd1)
            go == start_after_switch(new_mode, confirm)
            cmds2 == IF go THEN rs.cmds
                     ELSE IF new_mode = "none"
                     THEN <<"systemctl stop haproxy", "systemctl stop vortexl2-forward-daemon">>
                     ELSE <<>>
        IN  /\ procs' = stop.table
            /\ mode' = m2
            /\ haproxyService' = IF go THEN rs.haproxyService
                                 ELSE IF new_mode = "none" THEN systemctl_stop(hs1)
                                 ELSE hs1
            /\ forwardDaemon' = IF go THEN rs.forwardDaemon
                                ELSE IF new_mode = "none" THEN systemctl_stop(fd1)
                                ELSE fd1
            /\ Log(OpRec("change_mode", 0, TRUE, new_mode, cmds1 \o cmds2,
                         current_mode, stopped, confirm))
            /\ UNCHANGED <<installed, stealthVars, exec, tunnels, declared, callers>>

\* ports offered to the stealth menu: the forward ports and one more that is
\* no prefix of another
StealthPorts == Ports \cup {443}

\* what the operator may type at a "Port to ..." prompt
TypedPorts == {Dec(p) : p \in StealthPorts} \cup {<<>>, <<"x">>, <<"0">>, Dec(65536)}

isdigit(typed) == Len(typed) > 0 /\ \A i \in 1..Len(typed) : typed[i] \in Digit

StealthOp(op, port, ok, msg, cmds) == OpRec(op, port, ok, msg, cmds, mode, "n/a", FALSE)

\* why "add a port forward" leaves the files alone, "" when it writes them
add_refusal(file, typed) ==
    IF ~isdigit(typed) THEN "InvalidPort"
    ELSE IF ToInt(typed) < 1 \/ ToInt(typed) > 65535 THEN "PortOutOfRange"
    ELSE IF file.exists /\ already_configured(file.text, ToInt(typed)) THEN "AlreadyConfigured"
    ELSE ""

\* the text "add a port forward" writes to stealth.cfg
add_written(file, port) ==
    (IF file.exists THEN file.text ELSE stealth_header) \o haproxy_entry(port, tunnel_remote_ip)

\* why "remove a port forward" leaves the files alone, "" when it rewrites stealth.cfg
remove_refusal(file, typed) ==
    IF stealth_forwards(file) = {} THEN "NoForwards"
    ELSE IF typed \notin stealth_forwards(file) THEN "PortNotFound"
    ELSE ""

\* handle_stealth_port_forwards, choice 1: add a port forward
\* valid: haproxy -c accepts combined.cfg; started: the new haproxy came up
StealthAdd ==
    \E typed \in TypedPorts, valid \in BOOLEAN :
    \E started \in (IF valid THEN BOOLEAN ELSE {FALSE}) :
        IF add_refusal(stealthCfg, typed) # ""
        THEN /\ Log(StealthOp("stealth_add", IF isdigit(typed) THEN ToInt(typed) ELSE 0, FALSE,
                              add_refusal(stealthCfg, typed), <<>>))
             /\ UNCHANGED <<fwdVars, stealthVars, exec, tunnels, declared, callers>>
        ELSE LET port     == ToInt(typed)
                 written  == add_written(stealthCfg, port)
                 combined == base_haproxy \o written
             IN  /\ stealthCfg' = File(written)
                 /\ combinedCfg' = File(combined)
                 /\ accepted' = valid
                 /\ stealthProxy' = IF valid /\ started THEN ProxyOn(combined) ELSE stealthProxy
                 /\ Log(IF valid
                        THEN StealthOp("stealth_add", port, TRUE, "Added",
                                       <<"haproxy -c", "haproxy -f">>)
                        ELSE StealthOp("stealth_add", port, FALSE, "ConfigValidationFailed",
                                       <<"haproxy -c">>))
                 /\ UNCHANGED <<fwdVars, twinCfg, exec, tunnels, declared, callers>>

\* handle_stealth_port_forwards, choice 2: remove a port forward
StealthRemove ==
    \E typed \in TypedPorts :
        IF remove_refusal(stealthCfg, typed) # ""
        THEN /\ Log(StealthOp("stealth_remove", 0, FALSE, remove_refusal(stealthCfg, typed), <<>>))
             /\ UNCHANGED <<fwdVars, stealthVars, exec, tunnels, declared, callers>>
        ELSE /\ stealthCfg' = File(remove_stanza(stealthCfg.text, typed))
             /\ Log(StealthOp("stealth_remove", ToInt(typed), TRUE, "Removed", <<>>))
             /\ UNCHANGED <<fwdVars, combinedCfg, stealthProxy, accepted, twinCfg, exec, tunnels, declared, callers>>

\* handle_stealth_port_forwards, choice 4: restart HAProxy
\* killed: pkill haproxy ended the running instance; start_ok: haproxy -f ... -D returned 0
StealthRestart ==
    \E killed \in (IF stealthProxy.running THEN BOOLEAN ELSE {TRUE}), start_ok \in BOOLEAN :
        IF ~combinedCfg.exists
        THEN /\ Log(StealthOp("stealth_restart", 0, FALSE, "NoConfig", <<>>))
             /\ UNCHANGED <<fwdVars, stealthVars, exec, tunnels, declared, callers>>
        ELSE /\ stealthProxy' = IF start_ok THEN ProxyOn(combinedCfg.text)
                                ELSE IF killed THEN ProxyDown ELSE stealthProxy
             /\ Log(StealthOp("stealth_restart", 0, start_ok,
                              IF start_ok THEN "Restarted" ELSE "RestartFailed",
                              <<"pkill haproxy", "haproxy -f">>))
             /\ UNCHANGED <<fwdVars, stealthCfg, combinedCfg, accepted, twinCfg, exec, tunnels, declared, callers>>

\* handle_stealth_port_forwards, choice 5: validate config
StealthValidate ==
    \E valid \in BOOLEAN :
        IF ~combinedCfg.exists
        THEN /\ Log(StealthOp("stealth_validate", 0, FALSE, "NoConfig", <<>>))
             /\ UNCHANGED <<fwdVars, stealthVars, exec, tunnels, declared, callers>>
        ELSE /\ accepted' = (accepted \/ valid)
             /\ Log(StealthOp("stealth_validate", 0, valid,
                              IF valid THEN "Valid" ELSE "ConfigValidationFailed",
                              <<"haproxy -c">>))
             /\ UNCHANGED <<fwdVars, stealthCfg, combinedCfg, stealthProxy, twinCfg, exec, tunnels, declared, callers>>

Next ==
    \/ StartForward
    \/ StopForward
    \/ StopAllForwards
    \/ ChangeForwardMode

Spec == Init /\ [][Next]_vars

\* the stealth HAProxy menu
NextStealth ==
    \/ StealthAdd
    \/ StealthRemove
    \/ StealthRestart
    \/ StealthValidate

SpecStealth == Init /\ [][NextStealth]_vars

\* "add a port forward" on host h, kept to the two files: both are written
\* before haproxy -c runs, whatever it answers
TwinAdd ==
    \E h \in {1, 2}, typed \in TypedPorts :
        /\ add_refusal(twinCfg[h].stealth, typed) = ""
        /\ \E written \in {add_written(twinCfg[h].stealth, ToInt(typed))} :
              twinCfg' = [twinCfg EXCEPT ![h] = [stealth  |-> File(written),
                                                 combined |-> File(base_haproxy \o written)]]
        /\ UNCHANGED <<fwdVars, lastOp, prevStart, stealthCfg, combinedCfg, stealthProxy, accepted, exec, tunnels, declared, callers>>

\* "remove a port forward" on host h: stealth.cfg is rewritten, combined.cfg is not
TwinRemove ==
    \E h \in {1, 2}, typed \in TypedPorts :
        /\ remove_refusal(twinCfg[h].stealth, typed) = ""
        /\ twinCfg' = [twinCfg EXCEPT
                          ![h].stealth = File(remove_stanza(twinCfg[h].stealth.text, typed))]
        /\ UNCHANGED <<fwdVars, lastOp, prevStart, stealthCfg, combinedCfg, stealthProxy, accepted, exec, tunnels, declared, callers>>

\* two hosts, each with its own history of adds and removes
NextArtifact ==
    \/ TwinAdd
    \/ TwinRemove

SpecArtifact == Init /\ [][NextArtifact]_vars

\* ------------------------------------------------ the calls, step by step
\* a mode change that writes the new mode first
transition_entry_persist_first(current_mode) == "persist"

\* where a mode change starts: with the stop of the current backend, if any
transition_entry(current_mode) ==
    IF current_mode = "haproxy" THEN "forward.stop_all"
    ELSE IF current_mode = "socat" THEN "pkill_all"
    ELSE "persist"

\* a restart that starts HAProxy whatever the mode
restart_entry_any_mode(current_mode) == "start_haproxy"

\* restart_forward_daemon: the first command it runs, by get_forward_mode()
restart_entry(current_mode) ==
    IF current_mode = "haproxy" THEN "start_haproxy" ELSE "restart_daemon"

\* arguments a caller may pass to start_forward and stop_forward
ArgPorts == Ports \cup {65536}
ArgHosts == Hosts \cup {<<>>}

\* a call is made: SocatManager's operations, the mode change of
\* handle_forwards_menu, restart_forward_daemon
ExecCall ==
    /\ exec.op = "idle"
    /\ \/ \E local_port \in ArgPorts, remote_ip \in ArgHosts, remote_port \in RemotePorts :
            exec' = [Idle EXCEPT !.op = "start_forward", !.pc = "which", !.port = local_port,
                                 !.host = remote_ip, !.rport = remote_port, !.from = mode]
       \/ \E local_port \in ArgPorts :
            exec' = [Idle EXCEPT !.op = "stop_forward", !.pc = "pgrep", !.port = local_port,
                                 !.from = mode]
       \/ exec' = [Idle EXCEPT !.op = "stop_all_forwards", !.pc = "pkill_all", !.from = mode]
       \/ \E op \in {"list_active_forwards", "get_status"} :
            exec' = [Idle EXCEPT !.op = op, !.pc = "ps", !.from = mode]
       \/ \E new_mode \in Modes \ {mode} :
            exec' = [Idle EXCEPT !.op = "change_mode", !.new_mode = new_mode, !.from = mode,
                                 !.pc = transition_entry(mode)]
       \/ exec' = [Idle EXCEPT !.op = "restart_forward_daemon", !.from = mode,
                               !.pc = restart_entry(mode)]
    /\ UNCHANGED <<fwdVars, lastOp, prevStart, stealthVars, tunnels, declared, callers>>

\* between two calls socat is removed from the system; forwarders that run
\* keep running
ToolRemoved ==
    /\ exec.op = "idle"
    /\ installed
    /\ installed' = FALSE
    /\ UNCHANGED <<procs, mode, haproxyService, forwardDaemon, lastOp, prevStart, stealthVars, exec, tunnels, declared, callers>>

\* the command at exec.pc ends: it exits (how = "exit") or its timeout
\* expires (how = "timeout"); what it did to the system and what the code
\* reads from it
Complete(e, how) ==
    LET done(b) == after_command([e EXCEPT !.last = how,
                                           !.timedout = @ \/ how = "timeout"],
                                 run_command(b))
    IN  CASE e.pc = "which" ->
               /\ exec' = done(IF how = "timeout" THEN TimeoutExpired
                               ELSE IF installed THEN Exit(0, {"/usr/bin/socat"}, "")
                               ELSE Exit(1, {}, ""))
               /\ UNCHANGED fwdVars
          [] e.pc \in {"pgrep", "verify"} ->
               /\ \E pids \in {{p.pid : p \in stop_targets(procs, e.port)}} :
                    exec' = done(IF how = "timeout" THEN TimeoutExpired
                                 ELSE Exit(IF pids = {} THEN 1 ELSE 0, pids, ""))
               /\ UNCHANGED fwdVars
          [] e.pc = "ps" ->
               /\ \E lines \in {{p \in procs : GrepSocatListen(p.cmd)}} :
                    exec' = done(IF how = "timeout" THEN TimeoutExpired
                                 ELSE Exit(IF lines = {} THEN 1 ELSE 0, lines, ""))
               /\ UNCHANGED fwdVars
          [] e.pc = "launch" ->
               \* socat stays only on a port it can bind
               \E rc \in (IF how = "timeout" THEN {1} ELSE {0, 1}) :
               \E spawned \in (IF (how = "exit" /\ rc # 0) \/ e.port > 65535
                                  \/ ListeningOn(procs, e.port) # {}
                               THEN {FALSE} ELSE BOOLEAN) :
                 /\ procs' = IF spawned
                             THEN procs \cup {[pid |-> FreshPid(procs),
                                               cmd |-> socat_cmdline(e.port, e.host, e.rport)]}
                             ELSE procs
                 /\ exec' = done(IF how = "timeout" THEN TimeoutExpired ELSE Exit(rc, {}, ""))
                 /\ UNCHANGED <<installed, mode, haproxyService, forwardDaemon>>
          [] e.pc \in {"pkill", "pkill_all"} ->
               \E targets \in {IF e.pc = "pkill" THEN stop_targets(procs, e.port)
                               ELSE stop_all_targets(procs)} :
               \E survivors \in SUBSET targets, rc \in (IF how = "timeout" THEN {1} ELSE {0, 1}) :
                 /\ procs' = (procs \ targets) \cup survivors
                 /\ exec' = done(IF how = "timeout" THEN TimeoutExpired ELSE Exit(rc, {}, ""))
                 /\ UNCHANGED <<installed, mode, haproxyService, forwardDaemon>>
          [] e.pc \in SystemctlSteps ->
               /\ how = "exit"
               /\ exec' = after_command([e EXCEPT !.last = how], Triple(TRUE, {}, ""))
               /\ haproxyService' =
                    IF e.pc \in {"stop_haproxy", "none_stop_haproxy"}
                    THEN systemctl_stop(haproxyService)
                    ELSE IF e.pc = "start_haproxy" THEN systemctl_start(haproxyService)
                    ELSE haproxyService
               /\ forwardDaemon' =
                    IF e.pc \in {"stop_daemon", "none_stop_daemon"}
                    THEN systemctl_stop(forwardDaemon)
                    ELSE IF e.pc = "restart_daemon" THEN systemctl_restart(forwardDaemon)
                    ELSE forwardDaemon
               /\ UNCHANGED <<procs, installed, mode>>

\* the code runs the command at exec.pc: the command exits, or it cannot be
\* spawned (run_command only), or it does not come back
ExecIssue ==
    /\ exec.pc \in SocatSteps \cup SystemctlSteps
    /\ ~exec.waiting
    /\ \E e \in {[exec EXCEPT !.issued = @ + 1]} :
         \/ Complete(e, "exit")
         \/ /\ exec.pc \in SocatSteps
            /\ exec' = after_command([e EXCEPT !.last = "error"], run_command(SpawnError))
            /\ UNCHANGED fwdVars
         \/ /\ exec' = [e EXCEPT !.waiting = TRUE]
            /\ UNCHANGED fwdVars
    /\ UNCHANGED <<lastOp, prevStart, stealthVars, tunnels, declared, callers>>

\* subprocess.TimeoutExpired: the timeout of a command that did not come back
ExecExpire ==
    /\ exec.waiting
    /\ has_timeout(exec.pc)
    /\ Complete(exec, "timeout")
    /\ UNCHANGED <<lastOp, prevStart, stealthVars, tunnels, declared, callers>>

\* handle_forwards_menu, mode change away from haproxy:
\* asyncio.run(forward.stop_all_forwards()) inside try/except
ExecHaproxyStop ==
    /\ exec.pc = "forward.stop_all"
    /\ \E raises \in BOOLEAN :
         exec' = Goto([exec EXCEPT !.stop = IF raises THEN "raised" ELSE "ok"], "stop_haproxy")
    /\ UNCHANGED <<fwdVars, lastOp, prevStart, stealthVars, tunnels, declared, callers>>

\* handle_forwards_menu: set_forward_mode(new_mode)
ExecPersist ==
    /\ exec.pc = "persist"
    /\ mode' = set_forward_mode(exec.new_mode)
    /\ exec' = Goto([exec EXCEPT !.writes = @ + 1],
                    IF exec.new_mode # "none" THEN "confirm" ELSE "none_stop_haproxy")
    /\ UNCHANGED <<procs, installed, haproxyService, forwardDaemon, lastOp, prevStart, stealthVars, tunnels, declared, callers>>

\* handle_forwards_menu: "Start port forwarding now?", then restart_forward_daemon()
ExecConfirm ==
    /\ exec.pc = "confirm"
    /\ \E confirm \in BOOLEAN :
         exec' = IF start_after_switch(exec.new_mode, confirm)
                 THEN Goto(exec, restart_entry(mode))
                 ELSE Ret(exec, TRUE, "")
    /\ UNCHANGED <<fwdVars, lastOp, prevStart, stealthVars, tunnels, declared, callers>>

\* the call returns to its caller
ExecReturn ==
    /\ exec.pc = "return"
    /\ exec' = Idle
    /\ UNCHANGED <<fwdVars, lastOp, prevStart, stealthVars, tunnels, declared, callers>>

NextExec ==
    \/ ExecCall
    \/ ToolRemoved
    \/ ExecIssue
    \/ ExecExpire
    \/ ExecHaproxyStop
    \/ ExecPersist
    \/ ExecConfirm
    \/ ExecReturn

SpecExec == Init /\ [][NextExec]_vars

\* ------------------------------------------------------ main.py: tunnels
\* names of the saved configurations, ConfigManager.tunnel_exists(name)
tunnel_exists(ts, name) == \E i \in 1..Len(ts) : ts[i].name = name

\* where the loop of cmd_apply goes after a setup that failed: `continue`
next_after_failure_abort(i, n) == n + 1
next_after_failure(i, n) == i + 1

\* the loop of cmd_apply from tunnel i on; outcomes[i] is what full_setup()
\* returns for tunnel i if it is called; acc collects what the loop has done
RECURSIVE apply_loop(_, _, _, _)
apply_loop(ts, outcomes, i, acc) ==
    IF i > Len(ts) THEN acc
    ELSE IF ~ts[i].configured
         THEN apply_loop(ts, outcomes, i + 1,
                         [acc EXCEPT !.skipped = Append(@, ts[i].name)])
         ELSE IF outcomes[i]
              THEN apply_loop(ts, outcomes, i + 1,
                              [acc EXCEPT !.attempted = Append(@, ts[i].name)])
              ELSE apply_loop(ts, outcomes, next_after_failure(i, Len(ts)),
                              [acc EXCEPT !.attempted = Append(@, ts[i].name),
                                          !.errors = @ + 1])

\* cmd_apply(): what it attempted, what it skipped, its error count and return code
cmd_apply(ts, outcomes) ==
    IF ts = <<>>
    THEN [attempted |-> <<>>, skipped |-> <<>>, errors |-> 0, rc |-> 0]
    ELSE LET acc == apply_loop(ts, outcomes, 1,
                               [attempted |-> <<>>, skipped |-> <<>>, errors |-> 0])
         IN  [attempted |-> acc.attempted, skipped |-> acc.skipped,
              errors |-> acc.errors, rc |-> IF acc.errors > 0 THEN 1 ELSE 0]

\* ConfigManager.create_tunnel(name): the configuration object is made in memory,
\* the store is as it was ("Create tunnel config in memory (not saved yet)")
create_tunnel(ts, name) == ts

\* whether handle_create_tunnel saves the configuration after full_setup()
save_after_setup_always(success) == TRUE
save_after_setup(success) == success

\* handle_create_tunnel: the message it ends with and whether it saves;
\* side and name are the prompts' answers ("" and 0: nothing entered)
handle_create_tunnel(ts, side, name, prompt_ok, success) ==
    IF side = "" THEN [msg |-> "NoSide", store |-> ts, save |-> FALSE]
    ELSE IF name = 0 THEN [msg |-> "NoName", store |-> ts, save |-> FALSE]
    ELSE IF tunnel_exists(ts, name) THEN [msg |-> "AlreadyExists", store |-> ts, save |-> FALSE]
    ELSE IF ~prompt_ok
         THEN [msg |-> "ConfigurationCancelled", store |-> create_tunnel(ts, name), save |-> FALSE]
         ELSE [msg |-> IF success THEN "Created" ELSE "CreationFailed",
               store |-> create_tunnel(ts, name), save |-> save_after_setup(success)]

\* a configuration file written outside the menu (restored, edited by hand,
\* left by an older version): the store is an external collaborator
ConfigFileAppears ==
    \E name \in TunnelNames, configured \in BOOLEAN :
        /\ ~tunnel_exists(tunnels, name)
        /\ tunnels' = Append(tunnels, [name |-> name, configured |-> configured])
        /\ Log(OpRec("config_file", name, TRUE, "", <<>>, mode, 0, FALSE))
        /\ UNCHANGED <<fwdVars, stealthVars, exec, declared, callers>>

CmdApply ==
    \E outcomes \in [1..Len(tunnels) -> BOOLEAN] :
        \E r \in {cmd_apply(tunnels, outcomes)} :
            /\ Log([OpRec("cmd_apply", 0, r.rc = 0, "", r.attempted, mode, 0, FALSE)
                      EXCEPT !.count = r.errors, !.rc = r.rc,
                             !.skipped = r.skipped, !.outcomes = outcomes])
            /\ UNCHANGED <<fwdVars, stealthVars, exec, tunnels, declared, callers>>

CreateTunnel ==
    \E side \in {"", "IRAN", "KHAREJ"}, name \in TunnelNames \cup {0},
       prompt_ok \in BOOLEAN, success \in BOOLEAN :
        \E r \in {handle_create_tunnel(tunnels, side, name, prompt_ok, success)} :
            /\ tunnels' = IF r.save
                          THEN Append(r.store, [name |-> name, configured |-> TRUE])
                          ELSE r.store
            /\ Log([OpRec("create_tunnel", name, r.msg = "Created", r.msg, <<>>, mode, 0, prompt_ok)
                      EXCEPT !.outcomes = <<success>>])
            /\ UNCHANGED <<fwdVars, stealthVars, exec, declared, callers>>

\* handle_delete_tunnel: the selected configuration is deleted once confirmed
DeleteTunnel ==
    \E i \in 1..Len(tunnels), confirm \in BOOLEAN :
        /\ tunnels' = IF confirm
                      THEN SubSeq(tunnels, 1, i - 1) \o SubSeq(tunnels, i + 1, Len(tunnels))
                      ELSE tunnels
        /\ Log(OpRec("delete_tunnel", tunnels[i].name, confirm, "", <<>>, mode, 0, confirm))
        /\ UNCHANGED <<fwdVars, stealthVars, exec, declared, callers>>

NextTunnel ==
    \/ ConfigFileAppears
    \/ CmdApply
    \/ CreateTunnel
    \/ DeleteTunnel

SpecTunnel == Init /\ [][NextTunnel]_vars

\* ------------------------------------------- main.py: the forwards menu
\* HAProxyManager.add_multiple_forwards / remove_multiple_forwards: "it just
\* updates YAML", the declared rules of the tunnel
add_multiple_forwards(rules, ports) == rules \cup ports
remove_multiple_forwards(rules, ports) == rules \ ports

\* forward.validate_and_reload(): the daemon is reloaded only when the
\* configuration check passes
validate_and_reload(hs, valid) ==
    [ok |-> valid, haproxyService |-> IF valid THEN TRUE ELSE hs]

\* a menu that lets choices 1, 4 and 5 through whatever the mode
menu_refuses_never(current_mode) == FALSE

\* handle_forwards_menu, choices 1, 4 and 5: `if current_mode == "none"`
menu_refuses(current_mode) == current_mode = "none"

\* handle_forwards_menu, choice 2: `if current_mode != "none"`
remove_restarts(current_mode) == current_mode # "none"

\* what the menu leaves behind when it runs restart_forward_daemon(), or not
MenuRestartOrNot(restart, op, ports, ok, msg) ==
    \E r \in {restart_forward_daemon(mode, haproxyService, forwardDaemon)} :
        /\ haproxyService' = IF restart THEN r.haproxyService ELSE haproxyService
        /\ forwardDaemon' = IF restart THEN r.forwardDaemon ELSE forwardDaemon
        /\ Log([OpRec(op, 0, ok, msg, IF restart THEN r.cmds ELSE <<>>, mode, "n/a", FALSE)
                  EXCEPT !.count = Cardinality(ports)])

\* choice 1: add forwards
MenuAdd ==
    \E ports \in SUBSET Ports :
        /\ IF menu_refuses(mode)
           THEN /\ declared' = declared
                /\ MenuRestartOrNot(FALSE, "menu_add", ports, FALSE, "SelectModeFirst")
           ELSE /\ declared' = IF ports # {} THEN add_multiple_forwards(declared, ports)
                               ELSE declared
                /\ MenuRestartOrNot(ports # {}, "menu_add", ports, TRUE, "")
        /\ UNCHANGED <<procs, installed, mode, stealthVars, exec, tunnels, callers>>

\* choice 2: remove forwards
MenuRemove ==
    \E ports \in SUBSET Ports :
        /\ declared' = IF ports # {} THEN remove_multiple_forwards(declared, ports)
                       ELSE declared
        /\ MenuRestartOrNot(ports # {} /\ remove_restarts(mode), "menu_remove", ports, TRUE, "")
        /\ UNCHANGED <<procs, installed, mode, stealthVars, exec, tunnels, callers>>

\* choice 4: restart daemon
MenuRestart ==
    /\ IF menu_refuses(mode)
       THEN MenuRestartOrNot(FALSE, "menu_restart", {}, FALSE, "ForwardingDisabled")
       ELSE MenuRestartOrNot(TRUE, "menu_restart", {}, TRUE, "")
    /\ UNCHANGED <<procs, installed, mode, stealthVars, exec, tunnels, declared, callers>>

\* choice 5: validate and reload
MenuValidate ==
    \E valid \in BOOLEAN :
        /\ IF menu_refuses(mode)
           THEN /\ haproxyService' = haproxyService
                /\ Log(OpRec("menu_validate", 0, FALSE, "ForwardingDisabled", <<>>, mode, "n/a", FALSE))
           ELSE \E r \in {validate_and_reload(haproxyService, valid)} :
                /\ haproxyService' = r.haproxyService
                /\ Log(OpRec("menu_validate", 0, r.ok, "", <<"validate_and_reload">>, mode, "n/a", FALSE))
        /\ UNCHANGED <<procs, installed, mode, forwardDaemon, stealthVars, exec, tunnels, declared, callers>>

NextMenu ==
    \/ MenuAdd
    \/ MenuRemove
    \/ MenuRestart
    \/ MenuValidate
    \/ ChangeForwardMode

SpecMenu == Init /\ [][NextMenu]_vars

\* --------------------------------------- start_forward from two programs
\* Each caller runs start_forward command by command; nothing orders the
\* commands of one caller against those of the other.
RaceCall(c) ==
    /\ callers[c].op = "idle"
    /\ \E local_port \in Ports, remote_ip \in Hosts, remote_port \in RemotePorts :
         callers' = [callers EXCEPT ![c] =
                       [Idle EXCEPT !.op = "start_forward", !.pc = "which", !.port = local_port,
                                    !.host = remote_ip, !.rport = remote_port, !.from = mode]]
    /\ UNCHANGED <<fwdVars, lastOp, prevStart, stealthVars, exec, tunnels, declared>>

\* the command at callers[c].pc runs and exits
RaceStep(c) ==
    \E e \in {[callers[c] EXCEPT !.issued = @ + 1, !.last = "exit"]} :
        /\ e.pc \in {"which", "pgrep", "launch", "verify"}
        /\ CASE e.pc = "which" ->
                  /\ callers' = [callers EXCEPT ![c] =
                        after_command(e, run_command(IF installed
                                                     THEN Exit(0, {"/usr/bin/socat"}, "")
                                                     ELSE Exit(1, {}, "")))]
                  /\ procs' = procs
             [] e.pc \in {"pgrep", "verify"} ->
                  /\ \E pids \in {{p.pid : p \in stop_targets(procs, e.port)}} :
                       callers' = [callers EXCEPT ![c] =
                          after_command(e, run_command(Exit(IF pids = {} THEN 1 ELSE 0, pids, "")))]
                  /\ procs' = procs
             [] e.pc = "launch" ->
                  \* socat stays only on a port it can bind
                  \E spawned \in (IF ListeningOn(procs, e.port) # {} THEN {FALSE} ELSE BOOLEAN) :
                    /\ procs' = IF spawned
                                THEN procs \cup {[pid |-> FreshPid(procs),
                                                  cmd |-> socat_cmdline(e.port, e.host, e.rport)]}
                                ELSE procs
                    /\ callers' = [callers EXCEPT ![c] =
                                     after_command(e, run_command(Exit(0, {}, "")))]
        /\ UNCHANGED <<installed, mode, haproxyService, forwardDaemon, lastOp, prevStart,
                       stealthVars, exec, tunnels, declared>>

\* the call returns to its caller
RaceReturn(c) ==
    /\ callers[c].pc = "return"
    /\ callers' = [callers EXCEPT ![c] = Idle]
    /\ UNCHANGED <<fwdVars, lastOp, prevStart, stealthVars, exec, tunnels, declared>>

NextRace ==
    \E c \in {1, 2} :
        \/ RaceCall(c)
        \/ RaceStep(c)
        \/ RaceReturn(c)

SpecRace == Init /\ [][NextRace]_vars

\* ================================================================ claims
Issued(op, c) == \E i \in 1..Len(op.cmds) : op.cmds[i] = c

IsProperPrefix(a, b) == Len(a) < Len(b) /\ SubSeq(b, 1, Len(a)) = a

\* C1: after a mode change away from socat, when the new mode is persisted,
\* list_active_forwards() is empty: no socat forwarder is left running.
C1_NoSocatLeftAtModeChange ==
    (lastOp.op = "change_mode" /\ lastOp.from = "socat") => list_active_forwards(procs) = {}

\* C2: when stopping the current backend fails (stop_all reports remaining
\* processes, or raises), the mode change is aborted and the persisted mode
\* stays the mode it was.
C2_FailedStopAbortsTransition ==
    (lastOp.op = "change_mode" /\ lastOp.stopped \in {"failed", "raised"}) => mode = lastOp.from

\* C3: whenever the persisted mode is "none", no socat forwarder and no
\* HAProxy service is running.
C3_DisabledRunsNothing ==
    mode = "none" => (procs = {} /\ ~haproxyService)

\* C4: start_forward on a free port with socat installed and a launch that
\* leaves its process behind succeeds; a second start_forward for the same
\* port right after a successful one is refused as AlreadyForwarded, issues
\* no launch, leaves the process table as it was, and exactly one process
\* listens on the port.
C4_StartTwice ==
    [][ /\ (/\ lastOp'.op = "start_forward"
            /\ installed
            /\ ListeningOn(procs, lastOp'.port) = {}
            /\ procs' # procs)
           => (lastOp'.ok /\ lastOp'.msg = "Started")
        /\ (/\ lastOp'.op = "start_forward"
            /\ prevStart' = lastOp'.port)
           => (/\ ~lastOp'.ok
               /\ lastOp'.msg = "AlreadyForwarded"
               /\ ~Issued(lastOp', "launch")
               /\ procs' = procs
               /\ Cardinality(ListeningOn(procs', lastOp'.port)) = 1) ]_vars

C4_Witness ==
    /\ lastOp.op = "start_forward"
    /\ prevStart = lastOp.port
    /\ lastOp.msg = "AlreadyForwarded"
    /\ Cardinality(ListeningOn(procs, lastOp.port)) = 1

\* C5: stop_forward on a port nothing listens on returns success with the
\* not-forwarded message, issues no pkill, and leaves the process table
\* unchanged.
C5_StopIdle ==
    [][ (lastOp'.op = "stop_forward" /\ ListeningOn(procs, lastOp'.port) = {})
        => (/\ lastOp'.ok
            /\ lastOp'.msg = "NotForwarded"
            /\ ~Issued(lastOp', "pkill")
            /\ procs' = procs) ]_vars

C5_Witness ==
    /\ lastOp.op = "stop_forward"
    /\ lastOp.msg = "NotForwarded"
    /\ ListeningOn(procs, lastOp.port) = {}
    /\ procs # {}

\* C6: is_port_forwarded(p) is true exactly when a process listens on p, also
\* when another forwarded port q has the digits of p as a prefix (8 and 80);
\* stop_forward(p) ends only processes listening on p and leaves the
\* processes of every other port running.
C6_PatternPrecision ==
    /\ [](\A p \in Ports : is_port_forwarded(procs, p) <=> ListeningOn(procs, p) # {})
    /\ [][ lastOp'.op = "stop_forward"
           => (/\ procs' \subseteq procs
               /\ (procs \ procs') \subseteq ListeningOn(procs, lastOp'.port)
               /\ \A q \in Ports \ {lastOp'.port} :
                     ListeningOn(procs', q) = ListeningOn(procs, q)) ]_vars

C6_Witness ==
    /\ lastOp.op = "stop_forward"
    /\ lastOp.msg = "Stopped"
    /\ ListeningOn(procs, lastOp.port) = {}
    /\ ~is_port_forwarded(procs, lastOp.port)
    /\ \E q \in Ports :
          /\ IsProperPrefix(Dec(lastOp.port), Dec(q))
          /\ ListeningOn(procs, q) # {}
          /\ is_port_forwarded(procs, q)

\* C7: when haproxy -c rejects the generated configuration while the proxy
\* runs, the proxy is not restarted, combined.cfg (the file the proxy was
\* started on) is left unchanged, and the validation error is reported.
C7_ValidationFailSafe ==
    [][ (/\ lastOp'.op = "stealth_add"
         /\ lastOp'.msg = "ConfigValidationFailed"
         /\ stealthProxy.running)
        => (/\ stealthProxy' = stealthProxy
            /\ combinedCfg' = combinedCfg
            /\ ~lastOp'.ok) ]_vars

\* C8: every start of haproxy on combined.cfg comes after haproxy -c has
\* accepted that content of combined.cfg.
C8_NoUncheckedStart ==
    Issued(lastOp, "haproxy -f") => accepted

\* C9: a mode change that the operator does not confirm starts nothing: no
\* systemctl start or restart is issued, no service goes from stopped to
\* running, and no forwarder is launched.
C9_SwitchStartsNothing ==
    [][ (lastOp'.op = "change_mode" /\ ~lastOp'.confirm)
        => (/\ ~Issued(lastOp', "systemctl start haproxy")
            /\ ~Issued(lastOp', "systemctl restart vortexl2-forward-daemon")
            /\ (haproxyService' => haproxyService)
            /\ (forwardDaemon' => forwardDaemon)
            /\ procs' \subseteq procs) ]_vars

C9_Witness ==
    /\ lastOp.op = "change_mode"
    /\ ~lastOp.confirm
    /\ mode \in {"haproxy", "socat"}
    /\ ~haproxyService
    /\ ~forwardDaemon

\* C10: start_forward returns success only when a process listens on the port
\* at the check after the launch; when the launch command succeeded and
\* nothing listens on the port at that check, it fails with
\* StartVerificationFailed.
C10_StartVerified ==
    lastOp.op = "start_forward"
    => (/\ lastOp.ok => ListeningOn(procs, lastOp.port) # {}
        /\ (Len(lastOp.cmds) = 4 /\ ListeningOn(procs, lastOp.port) = {})
           => (~lastOp.ok /\ lastOp.msg = "StartVerificationFailed"))

C10_Witness ==
    /\ lastOp.op = "start_forward"
    /\ Issued(lastOp, "launch")
    /\ Len(lastOp.cmds) = 4
    /\ ListeningOn(procs, lastOp.port) = {}
    /\ lastOp.msg = "StartVerificationFailed"

\* C11: stop_all_forwards returns success only when no socat forwarder is
\* left (is_port_forwarded is false for every port); when some are left it
\* fails and the message reports how many are left.
C11_StopAllReportsTheTable ==
    lastOp.op = "stop_all_forwards"
    => (/\ lastOp.ok => \A p \in Ports : ~is_port_forwarded(procs, p)
        /\ ~lastOp.ok => (/\ lastOp.count > 0
                          /\ lastOp.count = Cardinality(stop_all_targets(procs))))

\* C12: after a successful start_forward the listing holds exactly one
\* running entry for the started port, with the rule's remote host and remote
\* port, and one entry per running forwarder; after a successful
\* stop_all_forwards the listing is empty.
C12_ListShowsStartedRules ==
    /\ (lastOp.op = "start_forward" /\ lastOp.ok)
       => (/\ \E e \in list_active_forwards(procs) :
                 /\ e.local_port = lastOp.port
                 /\ e.remote_ip = lastOp.host
                 /\ e.remote_port = lastOp.rport
                 /\ e.status = "running"
           /\ Cardinality({e \in list_active_forwards(procs) : e.local_port = lastOp.port}) = 1
           /\ Cardinality(list_active_forwards(procs)) = Cardinality(procs))
    /\ (lastOp.op = "stop_all_forwards" /\ lastOp.ok)
       => list_active_forwards(procs) = {}

\* C13: the generated configuration is a function of the set of forwarded
\* ports: two hosts whose stealth.cfg lists the same ports hold byte-identical
\* stealth.cfg, whatever order of adds and removes led there.
C13_ArtifactDependsOnlyOnRuleSet ==
    (/\ twinCfg[1].stealth.exists /\ twinCfg[2].stealth.exists
     /\ stealth_forwards(twinCfg[1].stealth) = stealth_forwards(twinCfg[2].stealth))
    => twinCfg[1].stealth.text = twinCfg[2].stealth.text

SocatOps == {"start_forward", "stop_forward", "stop_all_forwards"}

\* C14: start, stop and stop-all issue a bounded number of commands, each
\* with a timeout, and come back with a (success, message) result; when one
\* of the commands hung and timed out the result is a failure.
C14_TimedOutCommandFails ==
    exec.op \in SocatOps
    => (/\ exec.issued <= 4
        /\ exec.waiting => has_timeout(exec.pc)
        /\ (exec.pc = "return" /\ exec.timedout) => ~exec.ret.ok)

\* what run_command gave for the last command, given the literal it uses for
\* a timeout
RunnerContract(timeout_text) ==
    exec.last \in {"exit", "timeout", "error"}
    => (/\ ~exec.res.raised
        /\ exec.res.succeeded \in BOOLEAN
        /\ exec.last = "timeout"
           => (/\ ~exec.res.succeeded
               /\ exec.res.stdout = {}
               /\ exec.res.stderr = timeout_text)
        /\ exec.last = "error"
           => (/\ ~exec.res.succeeded
               /\ exec.res.stdout = {}
               /\ exec.res.stderr = SpawnError.stderr))

\* C15 (as claimed): run_command never raises and returns a (succeeded,
\* stdout, stderr) triple; on a timeout succeeded is false and stderr is
\* "command timed out"; on a spawn failure succeeded is false and stderr is
\* the error text.
C15_RunnerAsClaimed == RunnerContract("command timed out")

\* C15 (amended): the same, with the text the runner really returns on a
\* timeout: "Command timed out".
C15_RunnerNeverRaises == RunnerContract("Command timed out")

\* a command has timed out and one could not be spawned, both reported
C15_Witness ==
    /\ exec.last = "error"
    /\ exec.timedout
    /\ exec.res = Triple(FALSE, {}, SpawnError.stderr)

\* C16: a start request with a port outside 1..65535 or an empty remote host
\* is rejected before any command is run and leaves the process table alone;
\* an add request with such a port runs no command either.
C16_ContractViolationRunsNothing ==
    /\ (exec.op = "start_forward" /\ (exec.port \notin 1..65535 \/ exec.host = <<>>))
       => (/\ exec.issued = 0
           /\ exec.pc = "return" => ~exec.ret.ok
           /\ \A p \in procs : p.cmd # socat_cmdline(exec.port, exec.host, exec.rport))
    /\ (lastOp.op = "stealth_add" /\ lastOp.port \notin 1..65535) => lastOp.cmds = <<>>

\* C17: every command a mode change or restart_forward_daemon runs is run
\* with a timeout: when such a command does not return, the timeout ends the
\* wait, so the call is never left waiting for good.
C17_TransitionNeverBlocks ==
    exec.op \in {"change_mode", "restart_forward_daemon"}
    => (exec.waiting => has_timeout(exec.pc))

\* C18: in a mode change out of "haproxy" or "socat" the stop of the current
\* backend has been called and has given its result before the new mode is
\* written; nothing of the new backend is started before the new mode is
\* written; and a mode change that returns has written the mode exactly once.
C18_StopThenPersistThenStart ==
    /\ [][mode' # mode
          => (/\ exec.op = "change_mode" /\ exec.pc = "persist"
              /\ exec.writes = 0 /\ exec'.writes = 1
              /\ mode' = exec.new_mode
              /\ exec.from # "none" => exec.stop \in {"ok", "failed", "raised"})]_vars
    /\ []((exec.op = "change_mode" /\ exec.pc \in {"confirm", "start_haproxy", "restart_daemon"})
          => (exec.writes = 1 /\ mode = exec.new_mode))
    /\ []((exec.op = "change_mode" /\ exec.pc = "return") => exec.writes = 1)

\* a mode change from socat to haproxy has returned after a stop that left
\* processes behind, the mode written once, the new backend started after it
C18_Witness ==
    /\ exec.op = "change_mode" /\ exec.pc = "return"
    /\ exec.from = "socat" /\ exec.new_mode = "haproxy"
    /\ exec.stop = "failed"
    /\ exec.writes = 1 /\ mode = "haproxy"
    /\ haproxyService /\ forwardDaemon

\* C19: a stop_forward that found its port forwarded and went on to pkill
\* returns success exactly when the check after pkill and the wait sees the
\* port as not forwarded, whatever pkill's exit status was; when that check
\* sees the port still forwarded it returns failure.
C19_StopGoesByTheCheck ==
    (exec.op = "stop_forward" /\ exec.pc = "return" /\ exec.issued = 3)
    => (/\ exec.ret.ok <=> ~forwarded_reply(exec.res)
        /\ exec.ret.msg = IF exec.ret.ok THEN "Stopped" ELSE "StopVerificationFailed"
        /\ exec.last = "exit"
           => (exec.ret.ok <=> stop_targets(procs, exec.port) = {}))

\* pkill reported success, yet the process is still there at the check and
\* the stop is reported as failed
C19_Witness ==
    /\ exec.op = "stop_forward" /\ exec.pc = "return" /\ exec.issued = 3
    /\ exec.pkill_ok
    /\ exec.last = "exit"
    /\ stop_targets(procs, exec.port) # {}
    /\ ~exec.ret.ok

\* C20: for every port, is_port_forwarded(port) holds exactly when
\* list_active_forwards() has an entry with that local port; every running
\* forwarder, whatever its remote host, has an entry.
C20_ScannerConsistent ==
    /\ \A p \in Ports :
         is_port_forwarded(procs, p) <=> \E e \in list_active_forwards(procs) : e.local_port = p
    /\ \A q \in procs : \E e \in list_active_forwards(procs) : e.pid = q.pid

\* number of frontend stanzas of exactly this port in stealth.cfg
StanzaCount(file, port) ==
    Cardinality({j \in 1..Len(file.text) :
                   /\ file.text[j] = "frontend stealth_"
                   /\ SubSeq(file.text, j + 1, j + RunLen(file.text, j + 1, Digit)) = Dec(port)})

\* C21: the presence test of "add" is exact per port: adding p appends one
\* stanza pair for p when stealth.cfg has no stanza of exactly p (whatever
\* other ports it has) and leaves the file alone when it has one; so the file
\* never holds two stanza pairs of one port; removing an absent port is
\* refused and leaves the file alone.
C21_PresenceExactPerPort ==
    /\ [][ (lastOp'.op = "stealth_add" /\ lastOp'.port \in 1..65535)
           => IF StanzaCount(stealthCfg, lastOp'.port) = 0
              THEN /\ stealthCfg'.exists
                   /\ stealthCfg'.text = add_written(stealthCfg, lastOp'.port)
                   /\ StanzaCount(stealthCfg', lastOp'.port) = 1
              ELSE stealthCfg' = stealthCfg ]_vars
    /\ [][ (lastOp'.op = "stealth_remove" /\ ~lastOp'.ok) => stealthCfg' = stealthCfg ]_vars
    /\ [](\A q \in StealthPorts : StanzaCount(stealthCfg, q) <= 1)

\* C22: with socat absent, start_forward runs `which socat` and nothing else,
\* returns failure ToolNotInstalled and leaves the process table alone, also
\* when its port is already forwarded (the tool test comes first).
C22_ToolAbsentRejected ==
    /\ []((exec.op = "start_forward" /\ ~installed /\ exec.pc # "which")
          => (/\ exec.pc = "return"
              /\ exec.ret = [ok |-> FALSE, msg |-> "ToolNotInstalled"]
              /\ exec.issued = 1))
    /\ [][(exec.op = "start_forward" /\ ~installed) => procs' = procs]_vars

\* socat is gone while a forwarder still runs on the port; the start of that
\* port is refused for the missing tool
C22_Witness ==
    /\ exec.op = "start_forward" /\ exec.pc = "return"
    /\ ~installed
    /\ exec.last = "exit"
    /\ stop_targets(procs, exec.port) # {}
    /\ exec.ret.msg = "ToolNotInstalled"

\* names of the tunnels of ts, in order, that satisfy keep(i)
RECURSIVE NamesWhere(_, _, _)
NamesWhere(ts, keep, i) ==
    IF i > Len(ts) THEN <<>>
    ELSE (IF keep[i] THEN <<ts[i].name>> ELSE <<>>) \o NamesWhere(ts, keep, i + 1)

\* C23: cmd_apply attempts setup for every fully configured tunnel in order
\* whatever the earlier setups returned, skips the unconfigured ones without
\* counting them, and returns 1 exactly when at least one setup failed
C23_ApplyCollectsAndReports ==
    [][ lastOp'.op = "cmd_apply"
        => LET n == Len(tunnels)
               failed == {i \in 1..n : tunnels[i].configured /\ ~lastOp'.outcomes[i]}
           IN  /\ lastOp'.cmds = NamesWhere(tunnels, [i \in 1..n |-> tunnels[i].configured], 1)
               /\ lastOp'.skipped = NamesWhere(tunnels, [i \in 1..n |-> ~tunnels[i].configured], 1)
               /\ lastOp'.count = Cardinality(failed)
               /\ lastOp'.rc = (IF failed # {} THEN 1 ELSE 0) ]_vars

C23_Witness ==
    /\ lastOp.op = "cmd_apply"
    /\ Len(tunnels) = 2
    /\ tunnels[1].configured /\ tunnels[2].configured
    /\ lastOp.outcomes = <<FALSE, TRUE>>
    /\ lastOp.cmds = <<tunnels[1].name, tunnels[2].name>>
    /\ lastOp.rc = 1

\* C30: tunnel creation saves the configuration exactly when full_setup was
\* reported successful: a failed setup or a cancelled configuration saves
\* nothing, and the menu adds a saved configuration only by a creation that
\* reported success
C30_SavedIffSetupSucceeded ==
    /\ [][ lastOp'.op = "create_tunnel"
           => /\ lastOp'.msg \in {"CreationFailed", "ConfigurationCancelled"}
                    => tunnels' = tunnels
              /\ (tunnels' # tunnels)
                    <=> (lastOp'.msg = "Created" /\ lastOp'.outcomes = <<TRUE>>)
              /\ (tunnels' # tunnels)
                    => tunnels' = Append(tunnels, [name |-> lastOp'.port, configured |-> TRUE]) ]_vars
    /\ [][ (Len(tunnels') > Len(tunnels) /\ lastOp'.op # "config_file")
           => (lastOp'.op = "create_tunnel" /\ lastOp'.ok) ]_vars

C30_Witness ==
    /\ lastOp.op = "create_tunnel"
    /\ lastOp.msg = "CreationFailed"
    /\ lastOp.outcomes = <<FALSE>>
    /\ lastOp.port \in TunnelNames
    /\ ~tunnel_exists(tunnels, lastOp.port)

\* C24: list_active_forwards() and get_status() are observational: the only
\* command they issue is the process listing, and no step of theirs changes
\* the running forwarders, the persisted mode, the services or the
\* configuration files; get_status() reports forward_count equal to the
\* number of entries of the list it returns, and active exactly when that
\* number is greater than zero
C24_ListAndStatusObserveOnly ==
    /\ [][ exec.op \in {"list_active_forwards", "get_status"}
           => /\ procs' = procs /\ installed' = installed /\ mode' = mode
              /\ haproxyService' = haproxyService /\ forwardDaemon' = forwardDaemon
              /\ stealthCfg' = stealthCfg /\ combinedCfg' = combinedCfg ]_vars
    /\ [](exec.op \in {"list_active_forwards", "get_status"}
          => /\ exec.pc \in {"ps", "return"}
             /\ exec.issued <= 1)
    /\ []((exec.op = "get_status" /\ exec.pc = "return")
          => /\ exec.status.forward_count = Cardinality(exec.forwards)
             /\ exec.status.active <=> (exec.status.forward_count > 0))

C24_Witness ==
    /\ exec.op = "get_status" /\ exec.pc = "return"
    /\ exec.status.active /\ exec.status.forward_count = 2
    /\ Cardinality(procs) = 2

\* C25: restart_forward_daemon runs `systemctl start haproxy` exactly when
\* the forward mode is "haproxy" and restarts the forward daemon in every
\* mode; outside haproxy mode it leaves the HAProxy service as it found it
C25_RestartStartsHaproxyOnlyInHaproxyMode ==
    /\ [](exec.pc = "start_haproxy" => mode = "haproxy")
    /\ []((exec.op = "restart_forward_daemon" /\ exec.pc = "return")
          => /\ forwardDaemon
             /\ exec.issued = (IF mode = "haproxy" THEN 2 ELSE 1)
             /\ mode = "haproxy" => haproxyService)
    /\ [][ (exec.op = "restart_forward_daemon" /\ mode # "haproxy")
           => haproxyService' = haproxyService ]_vars

C25_Witness ==
    /\ exec.op = "restart_forward_daemon" /\ exec.pc = "return"
    /\ mode = "socat"
    /\ ~haproxyService
    /\ forwardDaemon
    /\ exec.issued = 1

\* C26: in mode "none" the menu's add, restart and validate choices end with
\* an error, change no declared rule and no file, and start or restart no
\* service; the remove choice in mode "none" changes the declared rules only
\* and runs no restart
C26_DisabledModeRefusesMenu ==
    /\ [][ (mode = "none" /\ lastOp'.op \in {"menu_add", "menu_restart", "menu_validate"})
           => /\ ~lastOp'.ok
              /\ lastOp'.msg \in {"SelectModeFirst", "ForwardingDisabled"}
              /\ lastOp'.cmds = <<>>
              /\ declared' = declared
              /\ mode' = mode
              /\ haproxyService' = haproxyService /\ forwardDaemon' = forwardDaemon
              /\ procs' = procs
              /\ stealthCfg' = stealthCfg /\ combinedCfg' = combinedCfg ]_vars
    /\ [][ (mode = "none" /\ lastOp'.op = "menu_remove")
           => /\ lastOp'.cmds = <<>>
              /\ \A p \in Ports : p \in declared' => p \in declared
              /\ mode' = mode
              /\ haproxyService' = haproxyService /\ forwardDaemon' = forwardDaemon
              /\ procs' = procs ]_vars

C26_Witness ==
    /\ mode = "none"
    /\ lastOp.op = "menu_remove" /\ lastOp.from = "none"
    /\ lastOp.count = 1
    /\ Cardinality(declared) = 1
    /\ ~forwardDaemon

\* C27: when a port was removed from the stealth artifact and the proxy is
\* then restarted with choice 4, the configuration the proxy is started
\* with holds no stanza of the removed port
C27_RestartAppliesRemoval ==
    [][ (/\ lastOp.op = "stealth_remove" /\ lastOp.ok
         /\ lastOp'.op = "stealth_restart" /\ lastOp'.ok)
        => /\ stealthProxy'.running
           /\ StanzaCount(File(stealthProxy'.cfg), lastOp.port) = 0 ]_vars

\* stealth.cfg after choice 1 with port p, and after choice 2 with port p
AfterAdd(file, p) ==
    IF add_refusal(file, Dec(p)) = "" THEN File(add_written(file, p)) ELSE file
AfterRemove(file, p) ==
    IF remove_refusal(file, Dec(p)) = "" THEN File(remove_stanza(file.text, Dec(p))) ELSE file

\* C28: on an existing stealth.cfg with no stanza of port p, adding p and then
\* removing p gives back exactly the content there was, and neither step
\* changes the number of stanzas of any other port, ports sharing a digit
\* prefix with p included
C28_AddRemoveRoundTrip ==
    \A p \in StealthPorts :
        (stealthCfg.exists /\ StanzaCount(stealthCfg, p) = 0)
        => /\ AfterRemove(AfterAdd(stealthCfg, p), p) = stealthCfg
           /\ \A q \in StealthPorts \ {p} :
                /\ StanzaCount(AfterAdd(stealthCfg, p), q) = StanzaCount(stealthCfg, q)
                /\ StanzaCount(AfterRemove(AfterAdd(stealthCfg, p), p), q) = StanzaCount(stealthCfg, q)

\* port 80 was added next to port 8 and removed again
C28_Witness ==
    /\ lastOp.op = "stealth_remove" /\ lastOp.ok /\ lastOp.port = 80
    /\ stealthCfg = File(stealth_header \o haproxy_entry(8, tunnel_remote_ip))
    /\ AfterAdd(stealthCfg, 80) # stealthCfg
    /\ AfterRemove(AfterAdd(stealthCfg, 80), 80) = stealthCfg

\* C29: of two start_forward calls for the same local port that are in
\* progress together at most one returns success, and at most one forwarder
\* runs on that port
C29_OneStartWins ==
    /\ ~(/\ callers[1].pc = "return" /\ callers[2].pc = "return"
         /\ callers[1].port = callers[2].port
         /\ callers[1].ret.ok /\ callers[2].ret.ok)
    /\ \A p \in Ports : Cardinality(ListeningOn(procs, p)) <= 1

====
